---------------------------- MODULE Spec2Model ----------------------------
(***************************************************************************)
(* The snapcraft exporter: a Prometheus collector that, on every scrape,   *)
(* fetches the Snapcraft metrics of the tracked snaps, decodes the JSON    *)
(* and emits one timestamped gauge sample per (series, bucket).            *)
(*                                                                         *)
(* The repository holds two builds of the exporter:                        *)
(*   "http"  src/main.go          one batched POST to the dashboard API    *)
(*   "cli"   src/unnamed/part_000 one `snapcraft metrics` run per pair     *)
(* Both are modelled; impl says which one the process runs.                *)
(*                                                                         *)
(* Text (JSON date literals) is a sequence of one-character strings.       *)
(* A panic inside Collect is never recovered by the exporter: it ends the  *)
(* scrape (pc = "crashed") and nothing of that scrape is served.           *)
(***************************************************************************)
EXTENDS Integers, Sequences, FiniteSets, TLC

\* ------------------------------------------------------------------ bounds
MaxEntities == 2   \* tracked snaps in SNAP_IDS / SNAP_NAMES
MaxBuckets  == 3   \* date buckets of one response
MaxSeries   == 2   \* series of one response
MaxMetrics  == 2   \* entries of one batched HTTP response
MaxScrapes  == 2   \* scrapes served by one process

\* ------------------------------------------------------------ text helpers
Digit == <<"0", "1", "2", "3", "4", "5", "6", "7", "8", "9">>

IsDigit(c) == \E k \in 1..10 : Digit[k] = c

DigitVal(c) == (CHOOSE k \in 1..10 : Digit[k] = c) - 1

RECURSIVE Pad(_, _)
\* n printed in exactly w decimal digits, zero padded (time.Format "2006", "01", "02")
Pad(n, w) == IF w = 0 THEN <<>> ELSE Pad(n \div 10, w - 1) \o <<Digit[(n % 10) + 1]>>

RECURSIVE Atoi(_)
Atoi(s) == IF s = <<>> THEN 0 ELSE Atoi(SubSeq(s, 1, Len(s) - 1)) * 10 + DigitVal(s[Len(s)])

AllDigits(s) == \A i \in 1..Len(s) : IsDigit(s[i])

Quote == "\""

RECURSIVE TrimLeft(_, _)
TrimLeft(s, c) == IF s # <<>> /\ s[1] = c THEN TrimLeft(Tail(s), c) ELSE s

RECURSIVE TrimRight(_, _)
TrimRight(s, c) == IF s # <<>> /\ s[Len(s)] = c THEN TrimRight(SubSeq(s, 1, Len(s) - 1), c) ELSE s

\* strings.Trim(s, cutset) for a one-character cutset
Trim(s, c) == TrimRight(TrimLeft(s, c), c)

\* ------------------------------------------------------------------- dates
\* A time.Time at midnight UTC: time.Parse("2006-01-02", ...) yields no other.
Date(y, m, d) == [year |-> y, month |-> m, day |-> d]

\* time.Time{}: January 1, year 1, 00:00:00 UTC
ZeroTime == Date(1, 1, 1)

IsLeap(y) == y % 4 = 0 /\ (y % 100 # 0 \/ y % 400 = 0)

DaysIn(m, y) ==
    IF m = 2 THEN (IF IsLeap(y) THEN 29 ELSE 28)
    ELSE IF m \in {4, 6, 9, 11} THEN 30 ELSE 31

\* t.Format("2006-01-02")
FormatYMD(t) == Pad(t.year, 4) \o <<"-">> \o Pad(t.month, 2) \o <<"-">> \o Pad(t.day, 2)

\* t.Format(time.RFC3339Nano) of a midnight UTC time
FormatRFC3339(t) ==
    FormatYMD(t) \o <<"T", "0", "0", ":", "0", "0", ":", "0", "0", "Z">>

\* time.Parse("2006-01-02", s): four digits, '-', two digits, '-', two digits,
\* nothing after them ("extra text"), month in 1..12, day within the month.
ParsedYMD(y, m, d) ==
    IF m \in 1..12 /\ d >= 1 /\ d <= DaysIn(m, y)
    THEN [ok |-> TRUE, t |-> Date(y, m, d)]
    ELSE [ok |-> FALSE, t |-> ZeroTime]

TimeParse(s) ==
    IF /\ Len(s) = 10
       /\ AllDigits(SubSeq(s, 1, 4)) /\ s[5] = "-"
       /\ AllDigits(SubSeq(s, 6, 7)) /\ s[8] = "-"
       /\ AllDigits(SubSeq(s, 9, 10))
    THEN ParsedYMD(Atoi(SubSeq(s, 1, 4)), Atoi(SubSeq(s, 6, 7)), Atoi(SubSeq(s, 9, 10)))
    ELSE [ok |-> FALSE, t |-> ZeroTime]

\* func (date SnapcraftDate) MarshalJSON() ([]byte, error)
\* json.Marshal(time.Time(date)) is Time.MarshalJSON: a quoted RFC 3339
\* timestamp, or an error for a year outside [0,9999].
MarshalJSON(date) ==
    IF date.year < 0 \/ date.year >= 10000
    THEN [ok |-> FALSE, text |-> <<>>]
    ELSE [ok |-> TRUE, text |-> <<Quote>> \o FormatRFC3339(date) \o <<Quote>>]

\* func (date *SnapcraftDate) UnmarshalJSON(b []byte) error
\* ok = (err == nil); on an error *date keeps the value it had (old).
Assigned(old, r) == IF r.ok THEN [ok |-> TRUE, date |-> r.t] ELSE [ok |-> FALSE, date |-> old]

UnmarshalJSON(old, b) == Assigned(old, TimeParse(Trim(b, Quote)))

\* the calendar day after t
NextDay(t) ==
    IF t.day < DaysIn(t.month, t.year) THEN Date(t.year, t.month, t.day + 1)
    ELSE IF t.month < 12 THEN Date(t.year, t.month + 1, 1)
    ELSE Date(t.year + 1, 1, 1)

\* --------------------------------------------------------- descriptors
\* prometheus.NewDesc(fqName, help, variableLabels, nil); the help text plays
\* no part in what Collect emits and is left out.
NewDesc(fqName, variableLabels) == [fqName |-> fqName, variableLabels |-> variableLabels]

\* var AllSnapcraftMetricNames
AllSnapcraftMetricNames ==
    << "daily_device_change", "weekly_device_change",
       "installed_base_by_channel", "installed_base_by_country",
       "installed_base_by_operating_system", "installed_base_by_version",
       "weekly_installed_base_by_channel", "weekly_installed_base_by_country",
       "weekly_installed_base_by_operating_system", "weekly_installed_base_by_version" >>

\* func newSnapcraftCollector(snapIDs []string) *SnapcraftCollector   (main.go)
newSnapcraftCollector(snapIDs) ==
    [ SnapIDs                    |-> snapIDs,
      deviceChangeDaily          |-> NewDesc("snapcraft_device_change_daily", <<"snap_id", "change">>),
      deviceChangeWeekly         |-> NewDesc("snapcraft_device_change_weekly", <<"snap_id", "change">>),
      installBaseByChannelDaily  |-> NewDesc("snapcraft_install_base_by_channel_daily", <<"snap_id", "channel">>),
      installBaseByCountryDaily  |-> NewDesc("snapcraft_install_base_by_country_daily", <<"snap_id", "country">>),
      installBaseBySystemDaily   |-> NewDesc("snapcraft_install_base_by_system_daily", <<"snap_id", "system">>),
      installBaseByVersionDaily  |-> NewDesc("snapcraft_install_base_by_version_daily", <<"snap_id", "version">>),
      installBaseByChannelWeekly |-> NewDesc("snapcraft_install_base_by_channel_weekly", <<"snap_id", "channel">>),
      installBaseByCountryWeekly |-> NewDesc("snapcraft_install_base_by_country_weekly", <<"snap_id", "country">>),
      installBaseBySystemWeekly  |-> NewDesc("snapcraft_install_base_by_system_weekly", <<"snap_id", "system">>),
      installBaseByVersionWeekly |-> NewDesc("snapcraft_install_base_by_version_weekly", <<"snap_id", "version">>) ]

\* func newSnapcraftCollector(snapNames []string) *SnapcraftCollector   (part_000)
\* The collector's list is the field SnapNames there; the model keeps one
\* field name, SnapIDs, for both builds.
newSnapcraftCollectorCli(snapNames) ==
    [ SnapIDs                    |-> snapNames,
      deviceChangeDaily          |-> NewDesc("snapcraft_device_change_daily", <<"change">>),
      deviceChangeWeekly         |-> NewDesc("snapcraft_device_change_weekly", <<"change">>),
      installBaseByChannelDaily  |-> NewDesc("snapcraft_install_base_by_channel_daily", <<"channel">>),
      installBaseByCountryDaily  |-> NewDesc("snapcraft_install_base_by_country_daily", <<"country">>),
      installBaseBySystemDaily   |-> NewDesc("snapcraft_install_base_by_system_daily", <<"system">>),
      installBaseByVersionDaily  |-> NewDesc("snapcraft_install_base_by_version_daily", <<"version">>),
      installBaseByChannelWeekly |-> NewDesc("snapcraft_install_base_by_channel_weekly", <<"channel">>),
      installBaseByCountryWeekly |-> NewDesc("snapcraft_install_base_by_country_weekly", <<"country">>),
      installBaseBySystemWeekly  |-> NewDesc("snapcraft_install_base_by_system_weekly", <<"system">>),
      installBaseByVersionWeekly |-> NewDesc("snapcraft_install_base_by_version_weekly", <<"version">>) ]

\* The collector before main has built one.
NoCollector == newSnapcraftCollector(<<>>)

NilDesc == NewDesc("", <<>>)

\* The same switch with the weekly channel case returning the daily descriptor.
snapcraftToPrometheusSwapped(collector, metricName) ==
    CASE metricName = "daily_device_change" -> [panic |-> FALSE, desc |-> collector.deviceChangeDaily]
      [] metricName = "weekly_device_change" -> [panic |-> FALSE, desc |-> collector.deviceChangeWeekly]
      [] metricName = "installed_base_by_channel" -> [panic |-> FALSE, desc |-> collector.installBaseByChannelDaily]
      [] metricName = "installed_base_by_country" -> [panic |-> FALSE, desc |-> collector.installBaseByCountryDaily]
      [] metricName = "installed_base_by_operating_system" -> [panic |-> FALSE, desc |-> collector.installBaseBySystemDaily]
      [] metricName = "installed_base_by_version" -> [panic |-> FALSE, desc |-> collector.installBaseByVersionDaily]
      [] metricName = "weekly_installed_base_by_channel" -> [panic |-> FALSE, desc |-> collector.installBaseByChannelDaily]
      [] metricName = "weekly_installed_base_by_country" -> [panic |-> FALSE, desc |-> collector.installBaseByCountryWeekly]
      [] metricName = "weekly_installed_base_by_operating_system" -> [panic |-> FALSE, desc |-> collector.installBaseBySystemWeekly]
      [] metricName = "weekly_installed_base_by_version" -> [panic |-> FALSE, desc |-> collector.installBaseByVersionWeekly]
      [] OTHER -> [panic |-> TRUE, desc |-> NilDesc]

\* func (collector *SnapcraftCollector) snapcraftToPrometheus(metricName string) *prometheus.Desc
\* panic = the default case, panic("trying to export an unsupported metric").
snapcraftToPrometheus(collector, metricName) ==
    CASE metricName = "daily_device_change" -> [panic |-> FALSE, desc |-> collector.deviceChangeDaily]
      [] metricName = "weekly_device_change" -> [panic |-> FALSE, desc |-> collector.deviceChangeWeekly]
      [] metricName = "installed_base_by_channel" -> [panic |-> FALSE, desc |-> collector.installBaseByChannelDaily]
      [] metricName = "installed_base_by_country" -> [panic |-> FALSE, desc |-> collector.installBaseByCountryDaily]
      [] metricName = "installed_base_by_operating_system" -> [panic |-> FALSE, desc |-> collector.installBaseBySystemDaily]
      [] metricName = "installed_base_by_version" -> [panic |-> FALSE, desc |-> collector.installBaseByVersionDaily]
      [] metricName = "weekly_installed_base_by_channel" -> [panic |-> FALSE, desc |-> collector.installBaseByChannelWeekly]
      [] metricName = "weekly_installed_base_by_country" -> [panic |-> FALSE, desc |-> collector.installBaseByCountryWeekly]
      [] metricName = "weekly_installed_base_by_operating_system" -> [panic |-> FALSE, desc |-> collector.installBaseBySystemWeekly]
      [] metricName = "weekly_installed_base_by_version" -> [panic |-> FALSE, desc |-> collector.installBaseByVersionWeekly]
      [] OTHER -> [panic |-> TRUE, desc |-> NilDesc]

\* The ten collectMetric calls of Collect's loop body (part_000), in order:
\* the metric name asked of the command and the descriptor passed with it.
CollectCalls(collector) ==
    << [name |-> "daily_device_change", metric |-> collector.deviceChangeDaily],
       [name |-> "weekly_device_change", metric |-> collector.deviceChangeWeekly],
       [name |-> "installed_base_by_channel", metric |-> collector.installBaseByChannelDaily],
       [name |-> "installed_base_by_country", metric |-> collector.installBaseByCountryDaily],
       [name |-> "installed_base_by_operating_system", metric |-> collector.installBaseBySystemDaily],
       [name |-> "installed_base_by_version", metric |-> collector.installBaseByVersionDaily],
       [name |-> "weekly_installed_base_by_channel", metric |-> collector.installBaseByChannelWeekly],
       [name |-> "weekly_installed_base_by_country", metric |-> collector.installBaseByCountryWeekly],
       [name |-> "weekly_installed_base_by_operating_system", metric |-> collector.installBaseBySystemWeekly],
       [name |-> "weekly_installed_base_by_version", metric |-> collector.installBaseByVersionWeekly] >>

\* ------------------------------------------------------ decoded values
\* SnapcraftMetricsItem{}, and SnapcraftMetric{} (main.go) / SnapcraftMetrics{}
\* (part_000): the zero values json.Unmarshal fills in.
ZeroItem == [Name |-> "", Values |-> <<>>, Released |-> FALSE]

ZeroMetric == [Buckets |-> <<>>, MetricName |-> "", Series |-> <<>>, SnapID |-> "", Status |-> ""]

\* --------------------------------------------------- json.Unmarshal
\* A raw JSON document is modelled by its structure: an object is a record of
\* its members plus keys, the order its members are written in; a date is its
\* text; a number or a string standing where an int is expected is a token
\* [kind, n]. valid = FALSE is a document that is not JSON at all.

\* []SnapcraftDate: Unmarshal grows the slice by one zero element, then calls
\* UnmarshalJSON on it; an error returned by UnmarshalJSON ends the whole
\* Unmarshal there, and the element just added stays in the slice.
RECURSIVE DecodeBuckets(_, _, _)
\* Element i decoded as r, then the elements after it.
DecodeBucket(texts, i, acc, r) ==
    IF r.ok THEN DecodeBuckets(texts, i + 1, Append(acc, r.date))
    ELSE [val |-> Append(acc, r.date), ok |-> FALSE]

DecodeBuckets(texts, i, acc) ==
    IF i > Len(texts) THEN [val |-> acc, ok |-> TRUE]
    ELSE DecodeBucket(texts, i, acc, UnmarshalJSON(ZeroTime, texts[i]))

\* []int: a token that is no integer leaves the element 0; Unmarshal keeps the
\* UnmarshalTypeError for its return value and goes on decoding.
DecodeValues(tokens) ==
    [ val |-> [i \in 1..Len(tokens) |-> IF tokens[i].kind = "number" THEN tokens[i].n ELSE 0],
      typeErr |-> \E i \in 1..Len(tokens) : tokens[i].kind # "number" ]

\* SnapcraftMetricsItem
DecodeItem(raw) ==
    [ val |-> [ Name |-> raw.name, Values |-> DecodeValues(raw.values).val,
                Released |-> raw.currently_released ],
      typeErr |-> DecodeValues(raw.values).typeErr ]

\* []SnapcraftMetricsItem
DecodeSeries(items) ==
    [ val |-> [j \in 1..Len(items) |-> DecodeItem(items[j]).val],
      typeErr |-> \E j \in 1..Len(items) : DecodeValues(items[j].values).typeErr ]

\* One object into a SnapcraftMetric, member by member in the order written.
\* abort: UnmarshalJSON failed, the members after it were never decoded.
RECURSIVE DecodeMembers(_, _, _, _)
\* The member "buckets" decoded as b, then the members after it.
DecodeBucketsMember(raw, k, acc, typeErr, b) ==
    IF b.ok THEN DecodeMembers(raw, k + 1, [acc EXCEPT !.Buckets = b.val], typeErr)
    ELSE [val |-> [acc EXCEPT !.Buckets = b.val], abort |-> TRUE, typeErr |-> typeErr]

\* The member "series" decoded as r, then the members after it.
DecodeSeriesMember(raw, k, acc, typeErr, r) ==
    DecodeMembers(raw, k + 1, [acc EXCEPT !.Series = r.val], typeErr \/ r.typeErr)

DecodeMembers(raw, k, acc, typeErr) ==
    IF k > Len(raw.keys) THEN [val |-> acc, abort |-> FALSE, typeErr |-> typeErr]
    ELSE CASE raw.keys[k] = "buckets" ->
                DecodeBucketsMember(raw, k, acc, typeErr, DecodeBuckets(raw.buckets, 1, <<>>))
           [] raw.keys[k] = "metric_name" ->
                DecodeMembers(raw, k + 1, [acc EXCEPT !.MetricName = raw.metric_name], typeErr)
           [] raw.keys[k] = "series" ->
                DecodeSeriesMember(raw, k, acc, typeErr, DecodeSeries(raw.series))
           [] raw.keys[k] = "snap_id" ->
                DecodeMembers(raw, k + 1, [acc EXCEPT !.SnapID = raw.snap_id], typeErr)
           [] raw.keys[k] = "status" ->
                DecodeMembers(raw, k + 1, [acc EXCEPT !.Status = raw.status], typeErr)
           [] OTHER -> DecodeMembers(raw, k + 1, acc, typeErr)

DecodeMetric(raw) == DecodeMembers(raw, 1, ZeroMetric, FALSE)

\* json.Unmarshal([]byte(out), &snapcraft) of part_000: one object.
\* val is what snapcraft holds afterwards, err whether Unmarshal returned an
\* error (the caller drops it), errs the entries whose data did not decode.
Decoded(r) == [val |-> <<r.val>>, err |-> r.abort \/ r.typeErr, errs |-> <<r.abort \/ r.typeErr>>]

UnmarshalCli(body) ==
    IF ~body.valid THEN [val |-> <<ZeroMetric>>, err |-> TRUE, errs |-> <<TRUE>>]
    ELSE Decoded(DecodeMetric(body.doc))

\* The entries of "metrics", in order, until one aborts the decoding.
RECURSIVE DecodeMetrics(_, _, _, _)
\* Entry k decoded as r, then the entries after it.
DecodeEntry(raws, k, acc, errs, r) ==
    IF r.abort
    THEN [val |-> Append(acc, r.val), err |-> TRUE, errs |-> Append(errs, TRUE)]
    ELSE DecodeMetrics(raws, k + 1, Append(acc, r.val), Append(errs, r.typeErr))

DecodeMetrics(raws, k, acc, errs) ==
    IF k > Len(raws) THEN [val |-> acc, err |-> \E i \in 1..Len(errs) : errs[i], errs |-> errs]
    ELSE DecodeEntry(raws, k, acc, errs, DecodeMetric(raws[k]))

\* json.Unmarshal([]byte(body), &snapcraft) of main.go: {"metrics": [...]}.
UnmarshalHttp(body) ==
    IF ~body.valid THEN [val |-> <<>>, err |-> TRUE, errs |-> <<>>]
    ELSE DecodeMetrics(body.metrics, 1, <<>>, <<>>)

\* ------------------------------------------------------------ emission
\* prometheus.MustNewConstMetric(desc, GaugeValue, value, labelValues...) then
\* prometheus.NewMetricWithTimestamp(t, m). MustNewConstMetric panics when the
\* label values are not as many as the descriptor's variable labels.
\* float64(n) is exact for the integers of the model.
NewSample(desc, value, labelValues, t) ==
    [ panic |-> Len(labelValues) # Len(desc.variableLabels),
      sample |-> [desc |-> desc, labels |-> labelValues, value |-> value, ts |-> t] ]

\* for i, date := range Buckets { ... item.Values[i] ... ch <- m }
\* look is the descriptor the iteration uses (main.go looks it up anew in
\* every iteration, and the lookup's panic comes before the index's).
\* acc: what was sent on ch so far. panic: "" or the panic that ended the loop.
RECURSIVE EmitBuckets(_, _, _, _, _, _)
\* ch <- m for the metric s built in iteration i, then the iterations after it.
Send(m, item, look, prefix, i, acc, s) ==
    IF s.panic THEN [samples |-> acc, panic |-> "inconsistent label cardinality"]
    ELSE EmitBuckets(m, item, look, prefix, i + 1, Append(acc, s.sample))

EmitBuckets(m, item, look, prefix, i, acc) ==
    IF i > Len(m.Buckets) THEN [samples |-> acc, panic |-> ""]
    ELSE IF look.panic THEN [samples |-> acc, panic |-> "unsupported metric"]
    ELSE IF i > Len(item.Values) THEN [samples |-> acc, panic |-> "index out of range"]
    ELSE Send(m, item, look, prefix, i, acc,
              NewSample(look.desc, item.Values[i], Append(prefix, item.Name), m.Buckets[i]))

\* for _, item := range Series { ... }
RECURSIVE EmitSeries(_, _, _, _, _)
\* The bucket loop of item j ended as r; then the items after it.
NextItem(m, look, prefix, j, r) ==
    IF r.panic # "" THEN r ELSE EmitSeries(m, look, prefix, j + 1, r.samples)

EmitSeries(m, look, prefix, j, acc) ==
    IF j > Len(m.Series) THEN [samples |-> acc, panic |-> ""]
    ELSE NextItem(m, look, prefix, j, EmitBuckets(m, m.Series[j], look, prefix, 1, acc))

\* Whether the loops over m reach their body at all.
ReachesBody(m) == Len(m.Series) > 0 /\ Len(m.Buckets) > 0

\* func collectMetric(snapName, snapMetricName, metric, ch) after its fetch:
\* the loops over the decoded response, with the descriptor it was passed
\* and the series name as the only label value.
collectMetric(metric, decoded) ==
    EmitSeries(decoded, [panic |-> FALSE, desc |-> metric], <<>>, 1, <<>>)

\* The loops of main.go's Collect over snapcraftMetrics.Metrics, from entry k.
\* per[k]: the samples sent on ch out of entry k.
RECURSIVE CollectLoop(_, _, _, _, _)
\* The loops over entry k ended as r, having used the lookups seen; then the
\* entries after it.
NextMetric(collector, metrics, k, per, seen, r) ==
    IF r.panic # ""
    THEN [per |-> Append(per, r.samples), panic |-> r.panic, lookups |-> seen]
    ELSE CollectLoop(collector, metrics, k + 1, Append(per, r.samples), seen)

\* Entry m with the descriptor lookup look of its metric name.
CollectMetricEntry(collector, metrics, k, per, lookups, m, look) ==
    NextMetric(collector, metrics, k, per,
               IF ReachesBody(m)
               THEN lookups \cup {[name |-> m.MetricName, panic |-> look.panic, desc |-> look.desc]}
               ELSE lookups,
               EmitSeries(m, look, <<m.SnapID>>, 1, <<>>))

CollectLoop(collector, metrics, k, per, lookups) ==
    IF k > Len(metrics) THEN [per |-> per, panic |-> "", lookups |-> lookups]
    ELSE CollectMetricEntry(collector, metrics, k, per, lookups, metrics[k],
                            snapcraftToPrometheus(collector, metrics[k].MetricName))

RECURSIVE Flatten(_)
Flatten(ss) == IF ss = <<>> THEN <<>> ELSE ss[1] \o Flatten(Tail(ss))

\* ------------------------------------------------- what the upstream sends
\* The tracked snaps a deployment may name.
EntityNames == <<"foo", "bar", "baz", "qux">>

SeriesNames == <<"stable", "edge", "beta", "candidate">>

RECURSIVE Day(_)
\* The k-th bucket date of a response: 2024-02-28, 2024-02-29, 2024-03-01, ...
Day(k) == IF k = 1 THEN Date(2024, 2, 28) ELSE NextDay(Day(k - 1))

DateText(t) == <<Quote>> \o FormatYMD(t) \o <<Quote>>

\* The two member orders a response object is written in.
KeyOrders ==
    { <<"buckets", "metric_name", "series", "snap_id", "status">>,
      <<"metric_name", "series", "snap_id", "status", "buckets">> }

\* A response has n buckets and s series and at most one defect:
\*   short / long  series j has n-1 / n+1 values
\*   baddate       bucket at is a timestamp, not a YYYY-MM-DD date
\*   nonnumeric    value at of series j is a string
Shapes ==
    { sh \in [ n : 0..MaxBuckets, s : 0..MaxSeries,
               defect : {"none", "short", "long", "baddate", "nonnumeric"},
               j : 0..MaxSeries, at : 0..MaxBuckets ] :
        CASE sh.defect = "none"       -> sh.j = 0 /\ sh.at = 0
          [] sh.defect = "short"      -> sh.n >= 1 /\ sh.j \in 1..sh.s /\ sh.at = 0
          [] sh.defect = "long"       -> sh.n >= 1 /\ sh.j \in 1..sh.s /\ sh.at = 0
          [] sh.defect = "baddate"    -> sh.s >= 1 /\ sh.j = 0 /\ sh.at \in 1..sh.n
          [] sh.defect = "nonnumeric" -> sh.j \in 1..sh.s /\ sh.at = sh.n /\ sh.n >= 1 }

\* The value the upstream reports for series j in bucket i.
ValueAt(j, i) == 10 * j + i

RawValues(sh, j) ==
    LET len == IF sh.j = j /\ sh.defect = "short" THEN sh.n - 1
               ELSE IF sh.j = j /\ sh.defect = "long" THEN sh.n + 1
               ELSE sh.n
    IN  [ i \in 1..len |->
            IF sh.defect = "nonnumeric" /\ sh.j = j /\ sh.at = i
            THEN [kind |-> "string", n |-> 0]
            ELSE [kind |-> "number", n |-> ValueAt(j, i)] ]

RawMetric(sh, keys, name, snap) ==
    [ keys        |-> keys,
      buckets     |-> [ i \in 1..sh.n |->
                          IF sh.defect = "baddate" /\ sh.at = i
                          THEN MarshalJSON(Day(i)).text
                          ELSE DateText(Day(i)) ],
      metric_name |-> name,
      series      |-> [ j \in 1..sh.s |->
                          [ name |-> SeriesNames[j], values |-> RawValues(sh, j),
                            currently_released |-> FALSE ] ],
      snap_id     |-> snap,
      status      |-> "OK" ]

\* Metric names a response may carry: the ten, none, and one the exporter
\* does not know.
ResponseNames == {AllSnapcraftMetricNames[i] : i \in 1..10} \cup {"", "monthly_device_change"}

\* The response every pair gets unless the upstream sends another: one bucket,
\* one series.
Filler(name, snap) ==
    RawMetric([n |-> 1, s |-> 1, defect |-> "none", j |-> 0, at |-> 0],
              <<"buckets", "metric_name", "series", "snap_id", "status">>, name, snap)

\* What the upstream may answer with: which response it sends where.
\*   kind "invalid"  the body is not JSON
\*        "filler"   every entry (the one document) is the filler
\*        "free"     entry p of len is RawMetric(sh, keys, name, snap)
NoShape == [n |-> 0, s |-> 0, defect |-> "none", j |-> 0, at |-> 0]

FillerOrder == <<"buckets", "metric_name", "series", "snap_id", "status">>

\* Bodies of the batched HTTP answer: not JSON, or up to MaxMetrics entries of
\* which at most one is not the filler.
HttpBody(kind, len, p, sh, keys, name, snap) ==
    [ valid |-> kind # "invalid",
      metrics |-> [ k \in 1..len |->
                      IF kind = "free" /\ k = p THEN RawMetric(sh, keys, name, snap)
                      ELSE Filler("installed_base_by_channel", snap) ] ]

\* Outputs of one `snapcraft metrics` run.
CliBody(kind, sh, keys, name, snap) ==
    [ valid |-> kind # "invalid",
      doc |-> IF kind = "free" THEN RawMetric(sh, keys, name, snap) ELSE Filler(name, snap) ]

\* The answers the upstream chooses among. named: the response carries the
\* metric name it was asked for (cli); name: the name it carries (http).
FillerChoice == [kind |-> "filler", sh |-> NoShape, keys |-> FillerOrder, named |-> TRUE]

CliChoices ==
    {FillerChoice, [FillerChoice EXCEPT !.kind = "invalid"]} \cup
    [kind : {"free"}, sh : Shapes, keys : KeyOrders, named : BOOLEAN]

HttpChoices ==
    {[kind |-> "invalid", len |-> 0, p |-> 0, sh |-> NoShape, keys |-> FillerOrder, name |-> ""]} \cup
    {[kind |-> "filler", len |-> len, p |-> 0, sh |-> NoShape, keys |-> FillerOrder, name |-> ""] :
        len \in 0..MaxMetrics} \cup
    { c \in [kind : {"free"}, len : 1..MaxMetrics, p : 1..MaxMetrics, sh : Shapes,
             keys : KeyOrders, name : ResponseNames] : c.p <= c.len }

\* ---------------------------------------------------------------- state
VARIABLES
    impl,        \* "http" (main.go) or "cli" (part_000)
    env,         \* the environment: SNAP (SNAP_IDS / SNAP_NAMES, split), MACAROON
    filterMode,  \* the staleness policy the deployment wants; no code reads it
    pc,          \* "start" | "exited" | "serving" | "collecting" | "done" | "crashed"
    collector,   \* the SnapcraftCollector main registered
    scrapes,     \* scrapes served so far
    cursor,      \* cli: index of the (snap, name) pair being fetched
    transport,   \* "idle" | "pending" | "hung"
    requested,   \* what this scrape has asked of the transport, in order
    failed,      \* the pairs whose fetch failed in this scrape
    ch,          \* the samples this scrape has sent on ch, in order
    lastDoc,     \* the last Unmarshal: [val, err, errs]
    lastPer,     \* the samples sent out of each entry of lastDoc.val
    lookups,     \* the (metric name, descriptor) pairings this scrape used
    freeUsed,    \* cli: the upstream has sent its one non-filler response
    panicMsg,    \* the panic that ended the process, "" when none
    rt           \* a date's round trip through MarshalJSON and UnmarshalJSON

deployVars == <<impl, env, filterMode>>
scrapeVars == <<cursor, transport, requested, failed, ch, lastDoc, lastPer, lookups, freeUsed, panicMsg>>
procVars == <<pc, collector, scrapes>>
vars == <<impl, env, filterMode, pc, collector, scrapes, cursor, transport, requested,
          failed, ch, lastDoc, lastPer, lookups, freeUsed, panicMsg, rt>>

NoDoc == [val |-> <<>>, err |-> FALSE, errs |-> <<>>]

RtIdle == [stage |-> "idle", via |-> "", date |-> ZeroTime, text |-> <<>>, ok |-> TRUE, parsed |-> ZeroTime]

\* SNAP_IDS / SNAP_NAMES after strings.Split(s, ", "); <<>> is the variable
\* unset or blank.
SnapLists == {SubSeq(EntityNames, 1, n) : n \in 0..MaxEntities}

Init ==
    /\ impl \in {"http", "cli"}
    /\ env \in [SNAP : SnapLists, MACAROON : {"", "macaroon"}]
    /\ impl = "cli" => env.MACAROON = ""
    /\ filterMode \in {"emit-all", "latest-only"}
    /\ pc = "start"
    /\ collector = NoCollector
    /\ scrapes = 0
    /\ cursor = 0
    /\ transport = "idle"
    /\ requested = <<>>
    /\ failed = {}
    /\ ch = <<>>
    /\ lastDoc = NoDoc
    /\ lastPer = <<>>
    /\ lookups = {}
    /\ freeUsed = FALSE
    /\ panicMsg = ""
    /\ rt = RtIdle

\* ------------------------------------------------------------- actions
\* func main() and snapcraftExporter: with SNAP_IDS / SNAP_NAMES blank main
\* returns; otherwise the collector is built and registered (MustRegister
\* calls Describe, never Collect) and the server listens. ListenAndServe
\* returning (the port is taken) is log.Fatal.
Main ==
    /\ pc = "start"
    /\ IF env.SNAP = <<>>
       THEN /\ pc' = "exited"
            /\ UNCHANGED collector
       ELSE /\ collector' = IF impl = "http" THEN newSnapcraftCollector(env.SNAP)
                                              ELSE newSnapcraftCollectorCli(env.SNAP)
            /\ \E listening \in BOOLEAN : pc' = IF listening THEN "serving" ELSE "exited"
    /\ UNCHANGED <<deployVars, scrapes, scrapeVars, rt>>

\* The filters getSnapcraftMetrics posts (main.go): every snap with every
\* metric name; Start and End are zero dates, and omitempty does not drop a
\* struct, so both are marshalled.
Filters(snapIDs, snapMetricNames) ==
    [ c \in 1..(Len(snapIDs) * Len(snapMetricNames)) |->
        [ snap_id     |-> snapIDs[((c - 1) \div Len(snapMetricNames)) + 1],
          metric_name |-> snapMetricNames[((c - 1) % Len(snapMetricNames)) + 1],
          start       |-> MarshalJSON(ZeroTime).text,
          end         |-> MarshalJSON(ZeroTime).text ] ]

\* A pair as the claims speak of it.
Pair(snap, name) == [snap |-> snap, name |-> name]

PairsOf(filters) == {Pair(filters[c].snap_id, filters[c].metric_name) : c \in 1..Len(filters)}

\* Every (tracked snap, metric name) pair.
AllPairs == {Pair(collector.SnapIDs[e], AllSnapcraftMetricNames[i]) :
                e \in 1..Len(collector.SnapIDs), i \in 1..10}

\* func (collector *SnapcraftCollector) Collect, main.go, up to client.Do:
\* getSnapcraftMetrics panics without SNAP_STORE_MACAROON, else posts the
\* filters of every pair in one request.
Collect ==
    /\ pc = "serving" /\ impl = "http" /\ scrapes < MaxScrapes
    /\ ch' = <<>> /\ lookups' = {} /\ failed' = {} /\ lastDoc' = NoDoc /\ lastPer' = <<>>
    /\ IF env.MACAROON = ""
       THEN /\ pc' = "crashed"
            /\ panicMsg' = "SNAP_STORE_MACAROON must be set"
            /\ UNCHANGED <<requested, transport>>
       ELSE /\ pc' = "collecting"
            /\ requested' = Filters(collector.SnapIDs, AllSnapcraftMetricNames)
            /\ transport' = "pending"
            /\ UNCHANGED panicMsg
    /\ UNCHANGED <<deployVars, collector, scrapes, cursor, freeUsed, rt>>

\* The c-th collectMetric call of Collect (part_000): snap by snap, the ten
\* calls in the order written.
CallAt(c) ==
    LET call == CollectCalls(collector)[((c - 1) % 10) + 1]
    IN  [snap |-> collector.SnapIDs[((c - 1) \div 10) + 1], name |-> call.name, metric |-> call.metric]

NumCalls == Len(collector.SnapIDs) * 10

CliRequest(c) == [snap_id |-> CallAt(c).snap, metric_name |-> CallAt(c).name]

Pairing(c) == [name |-> CallAt(c).name, panic |-> FALSE, desc |-> CallAt(c).metric]

\* func (collector *SnapcraftCollector) Collect, part_000, up to the first
\* exec.Command(...).Output().
CollectCli ==
    /\ pc = "serving" /\ impl = "cli" /\ scrapes < MaxScrapes
    /\ ch' = <<>> /\ failed' = {} /\ lastDoc' = NoDoc /\ lastPer' = <<>>
    /\ freeUsed' = FALSE
    /\ pc' = "collecting"
    /\ cursor' = 1
    /\ requested' = <<CliRequest(1)>>
    /\ lookups' = {Pairing(1)}
    /\ transport' = "pending"
    /\ UNCHANGED <<deployVars, collector, scrapes, panicMsg, rt>>

\* The pairs of the request in flight.
InFlight ==
    IF impl = "http" THEN PairsOf(requested)
    ELSE {Pair(CallAt(cursor).snap, CallAt(cursor).name)}

\* The fetch fails: exec's error (part_000); client.Do's or ReadAll's error,
\* or a status other than 200 (main.go). Each is a panic.
TransportFails ==
    /\ pc = "collecting" /\ transport = "pending"
    /\ \E why \in (IF impl = "http" THEN {"client.Do", "ReadAll", "status"} ELSE {"exec"}) :
          panicMsg' = why
    /\ failed' = failed \cup InFlight
    /\ transport' = "idle"
    /\ pc' = "crashed"
    /\ UNCHANGED <<deployVars, collector, scrapes, cursor, requested, ch, lastDoc, lastPer,
                   lookups, freeUsed, rt>>

\* The upstream never answers. http.Client{} has no Timeout and exec.Command
\* no context: nothing in the exporter ends the wait.
TransportHangs ==
    /\ pc = "collecting" /\ transport = "pending"
    /\ transport' = "hung"
    /\ UNCHANGED <<deployVars, procVars, cursor, requested, failed, ch, lastDoc, lastPer,
                   lookups, freeUsed, panicMsg, rt>>

\* main.go: the answer, one of answers, arrives with status 200; Unmarshal
\* (its error dropped), then Collect's loops over the decoded entries.
HttpAnswers(answers) ==
    /\ pc = "collecting" /\ transport = "pending" /\ impl = "http"
    /\ \E c \in answers, e \in 1..Len(collector.SnapIDs) :
          /\ c.kind # "free" => e = 1
          /\ \E d \in {UnmarshalHttp(HttpBody(c.kind, c.len, c.p, c.sh, c.keys, c.name,
                                              collector.SnapIDs[e]))} :
             \E r \in {CollectLoop(collector, d.val, 1, <<>>, {})} :
                 /\ lastDoc' = d
                 /\ lastPer' = r.per
                 /\ ch' = Flatten(r.per)
                 /\ lookups' = r.lookups
                 /\ panicMsg' = r.panic
                 /\ pc' = IF r.panic = "" THEN "done" ELSE "crashed"
    /\ transport' = "idle"
    /\ UNCHANGED <<deployVars, collector, scrapes, cursor, requested, failed, freeUsed, rt>>

HttpResponse == HttpAnswers(HttpChoices)

\* part_000: the command's output, one of outputs, arrives; Unmarshal (its
\* error dropped), collectMetric's loops, then Collect's next collectMetric
\* call, if any.
CliOutputs(outputs) ==
    /\ pc = "collecting" /\ transport = "pending" /\ impl = "cli"
    /\ \E c \in (IF freeUsed THEN {FillerChoice} ELSE outputs) :
          /\ \E d \in {UnmarshalCli(CliBody(c.kind, c.sh, c.keys,
                                            IF c.named THEN CallAt(cursor).name ELSE "",
                                            CallAt(cursor).snap))} :
             \E r \in {collectMetric(CallAt(cursor).metric, d.val[1])} :
                 /\ freeUsed' = (freeUsed \/ c.kind # "filler")
                 /\ lastDoc' = d
                 /\ lastPer' = <<r.samples>>
                 /\ ch' = ch \o r.samples
                 /\ panicMsg' = r.panic
                 /\ IF r.panic # ""
                    THEN /\ pc' = "crashed" /\ transport' = "idle"
                         /\ UNCHANGED <<cursor, requested, lookups>>
                    ELSE IF cursor < NumCalls
                    THEN /\ cursor' = cursor + 1
                         /\ requested' = Append(requested, CliRequest(cursor + 1))
                         /\ lookups' = lookups \cup {Pairing(cursor + 1)}
                         /\ transport' = "pending"
                         /\ UNCHANGED pc
                    ELSE /\ pc' = "done" /\ transport' = "idle"
                         /\ UNCHANGED <<cursor, requested, lookups>>
    /\ UNCHANGED <<deployVars, collector, scrapes, failed, rt>>

CliOutput == CliOutputs(CliChoices)

\* Collect has returned: the registry has taken the samples off ch and the
\* scrape is answered; nothing of it stays in the process.
ScrapeServed ==
    /\ pc = "done"
    /\ pc' = "serving"
    /\ scrapes' = scrapes + 1
    /\ cursor' = 0 /\ requested' = <<>> /\ failed' = {} /\ ch' = <<>>
    /\ lastDoc' = NoDoc /\ lastPer' = <<>> /\ lookups' = {} /\ freeUsed' = FALSE
    /\ UNCHANGED <<deployVars, collector, transport, panicMsg, rt>>

Next ==
    \/ Main
    \/ Collect
    \/ CollectCli
    \/ TransportFails
    \/ TransportHangs
    \/ HttpResponse
    \/ CliOutput
    \/ ScrapeServed

Spec == Init /\ [][Next]_vars

\* Whether a scrape ends does not depend on what an answer carries beyond
\* whether Collect panics on it: the answers of one bucket and one series.
FairHttpChoices ==
    {c \in HttpChoices : c.kind = "free" =>
        /\ c.len = 1 /\ c.sh.n = 1 /\ c.sh.s = 1
        /\ c.keys = FillerOrder /\ c.name \in {"daily_device_change", ""}}

FairCliChoices ==
    {c \in CliChoices : c.kind = "free" =>
        /\ c.sh.n = 1 /\ c.sh.s = 1 /\ c.keys = FillerOrder /\ c.named}

NextFair ==
    \/ Main
    \/ Collect
    \/ CollectCli
    \/ TransportFails
    \/ TransportHangs
    \/ HttpAnswers(FairHttpChoices)
    \/ CliOutputs(FairCliChoices)
    \/ ScrapeServed

\* The Go runtime keeps running whatever can run, and an upstream that is
\* going to answer does; an upstream that has hung leaves nothing to run.
FairSpec == Init /\ [][NextFair]_vars /\ WF_vars(NextFair)

\* --------------------------------------------------- the date round trip
\* The dates a bucket may hold: every day of a common year, of a leap year,
\* and of the first and last years a four-digit layout can write.
RtYears == {1, 2023, 2024, 9999}

CalendarDates ==
    {t \in [year : RtYears, month : 1..12, day : 1..31] : t.day <= DaysIn(t.month, t.year)}

InitDate ==
    /\ impl = "http"
    /\ env = [SNAP |-> <<>>, MACAROON |-> ""]
    /\ filterMode = "emit-all"
    /\ pc = "start"
    /\ collector = NoCollector
    /\ scrapes = 0
    /\ cursor = 0
    /\ transport = "idle"
    /\ requested = <<>>
    /\ failed = {}
    /\ ch = <<>>
    /\ lastDoc = NoDoc
    /\ lastPer = <<>>
    /\ lookups = {}
    /\ freeUsed = FALSE
    /\ panicMsg = ""
    /\ rt \in {[RtIdle EXCEPT !.stage = "date", !.date = t] : t \in CalendarDates}

\* The date is written by SnapcraftDate.MarshalJSON.
RtMarshal ==
    /\ rt.stage = "date"
    /\ \E r \in {MarshalJSON(rt.date)} :
          rt' = [rt EXCEPT !.stage = IF r.ok THEN "text" ELSE "failed",
                           !.via = "MarshalJSON", !.text = r.text]
    /\ UNCHANGED <<deployVars, procVars, scrapeVars>>

\* The date is written as the upstream writes a bucket, "YYYY-MM-DD".
RtUpstream ==
    /\ rt.stage = "date"
    /\ rt' = [rt EXCEPT !.stage = "text", !.via = "upstream", !.text = DateText(rt.date)]
    /\ UNCHANGED <<deployVars, procVars, scrapeVars>>

\* The text is read by SnapcraftDate.UnmarshalJSON into a zero SnapcraftDate.
RtUnmarshal ==
    /\ rt.stage = "text"
    /\ \E r \in {UnmarshalJSON(ZeroTime, rt.text)} :
          rt' = [rt EXCEPT !.stage = "parsed", !.ok = r.ok, !.parsed = r.date]
    /\ UNCHANGED <<deployVars, procVars, scrapeVars>>

NextDate ==
    \/ RtMarshal
    \/ RtUpstream
    \/ RtUnmarshal

SpecDate == InitDate /\ [][NextDate]_vars

\* ================================================================ claims
TenNames == {AllSnapcraftMetricNames[i] : i \in 1..10}

\* The samples Collect sent out of entry k of the last decoded document.
SamplesOf(k) == IF k <= Len(lastPer) THEN lastPer[k] ELSE <<>>

\* The series a sample belongs to: its last label value.
SeriesOf(s) == s.labels[Len(s.labels)]

SamplesOfSeries(k, name) == SelectSeq(SamplesOf(k), LAMBDA s : SeriesOf(s) = name)

Matched(m, j) == Len(m.Series[j].Values) = Len(m.Buckets)

WellFormed(m) == \A j \in 1..Len(m.Series) : Matched(m, j)

\* The collectMetric call whose response was decoded last (cli): the one
\* before the call that waits for, or failed to get, its output.
LastCall ==
    IF transport \in {"pending", "hung"} \/ panicMsg = "exec" THEN cursor - 1 ELSE cursor

\* The descriptor of the metric name entry k answers for: the name the entry
\* carries (http), the name the command was run with (cli).
DescriptorOf(k) ==
    IF impl = "http" THEN snapcraftToPrometheus(collector, lastDoc.val[k].MetricName).desc
    ELSE CallAt(LastCall).metric

\* One sample per bucket for series j of m.
ExpectedOfSeries(m, j, desc) ==
    [ i \in 1..Len(m.Buckets) |->
        [ desc   |-> desc,
          labels |-> IF Len(desc.variableLabels) = 2
                     THEN <<m.SnapID, m.Series[j].Name>> ELSE <<m.Series[j].Name>>,
          value  |-> m.Series[j].Values[i],
          ts     |-> m.Buckets[i] ] ]

RECURSIVE ExpectedFrom(_, _, _)
ExpectedFrom(m, j, desc) ==
    IF j > Len(m.Series) THEN <<>>
    ELSE ExpectedOfSeries(m, j, desc) \o ExpectedFrom(m, j + 1, desc)

\* C1: when the fetch of a pair fails during a scrape, the scrape is not
\* aborted and the process does not crash: the scrape goes on and, when it
\* ends, it has asked for every (snap, metric name) pair.
C1_TransportFailureIsolated ==
    failed # {} =>
        /\ pc \in {"collecting", "done"}
        /\ pc = "done" => PairsOf(requested) = AllPairs

\* C2: a series whose values are not as many as the buckets yields no sample,
\* every other series of the same response yields its samples, and the scrape
\* is not aborted.
C2_MismatchedSeriesDropped ==
    \A k \in 1..Len(lastDoc.val) :
        LET m == lastDoc.val[k]
        IN  (\E j \in 1..Len(m.Series) : ~Matched(m, j)) =>
                /\ pc # "crashed"
                /\ \A j \in 1..Len(m.Series) :
                      SamplesOfSeries(k, m.Series[j].Name) =
                          IF Matched(m, j) THEN ExpectedOfSeries(m, j, DescriptorOf(k)) ELSE <<>>

\* C3: for a response whose series all have as many values as there are
\* buckets, Collect sends exactly one sample per series and bucket, carrying
\* the descriptor of the response's metric name, the series name (and the
\* snap, when the descriptor has that label), the value and the bucket date.
C3_OneSamplePerBucket ==
    \A k \in 1..Len(lastDoc.val) :
        WellFormed(lastDoc.val[k]) =>
            SamplesOf(k) = ExpectedFrom(lastDoc.val[k], 1, DescriptorOf(k))

\* The dimension label documented for each metric name.
DimensionLabel(name) ==
    CASE name \in {"daily_device_change", "weekly_device_change"} -> "change"
      [] name \in {"installed_base_by_channel", "weekly_installed_base_by_channel"} -> "channel"
      [] name \in {"installed_base_by_country", "weekly_installed_base_by_country"} -> "country"
      [] name \in {"installed_base_by_operating_system",
                   "weekly_installed_base_by_operating_system"} -> "system"
      [] name \in {"installed_base_by_version", "weekly_installed_base_by_version"} -> "version"
      [] OTHER -> ""

\* The descriptor the running build pairs with the i-th of the ten names: by
\* snapcraftToPrometheus (main.go) or by Collect's i-th call (part_000).
TableAt(i) ==
    IF impl = "http" THEN snapcraftToPrometheus(collector, AllSnapcraftMetricNames[i]).desc
    ELSE CollectCalls(collector)[i].metric

\* C4: every descriptor lookup a scrape makes returns, for one of the ten
\* metric names, a descriptor whose dimension label is the documented one,
\* different names getting different descriptors; for any other name it
\* panics and returns no descriptor.
C4_LookupTable ==
    /\ \A l \in lookups :
          IF l.name \in TenNames
          THEN /\ ~l.panic
               /\ l.desc.variableLabels # <<>>
               /\ l.desc.variableLabels[Len(l.desc.variableLabels)] = DimensionLabel(l.name)
          ELSE l.panic /\ l.desc = NilDesc
    /\ \A l \in lookups : l.name \in TenNames =>
          \A i \in 1..10 : AllSnapcraftMetricNames[i] # l.name => l.desc # TableAt(i)

\* A scrape has looked up a name of the ten and a name outside them.
C4_Witness ==
    /\ \E l \in lookups : l.name \in TenNames /\ ~l.panic
    /\ \E l \in lookups : l.name \notin TenNames /\ l.panic

\* C5: a process that got past its start has its required configuration:
\* the list of snaps and, for the build that needs one, the credential.
C5_RefusesToStart ==
    pc \in {"serving", "collecting", "done", "crashed"} =>
        /\ env.SNAP # <<>>
        /\ impl = "http" => env.MACAROON # ""

\* C6: when Unmarshal fails on the data of an entry, no sample is sent out of
\* that entry and the scrape does not crash.
C6_ParseFailureConfined ==
    /\ \A k \in 1..Len(lastDoc.errs) : lastDoc.errs[k] => SamplesOf(k) = <<>>
    /\ lastDoc.err => pc # "crashed"

\* C7: a Collect that has ended has asked the transport for exactly the pairs
\* {tracked snaps} x {the ten metric names}, and never asks for any other;
\* the collector stays as main built it.
C7_RequestsEveryPair ==
    pc \in {"serving", "collecting", "done", "crashed"} =>
        /\ PairsOf(requested) \subseteq AllPairs
        /\ pc \in {"done", "crashed"} => PairsOf(requested) = AllPairs
        /\ collector = IF impl = "http" THEN newSnapcraftCollector(env.SNAP)
                                        ELSE newSnapcraftCollectorCli(env.SNAP)

\* C8: every Collect ends, whatever the upstream does.
C8_CollectTerminates == (pc = "collecting") ~> (pc \in {"done", "crashed"})

\* C9: a date written by MarshalJSON and read back by UnmarshalJSON is read
\* without an error and is the date written.
C9_RoundTrip ==
    (rt.stage = "parsed" /\ rt.via = "MarshalJSON") => (rt.ok /\ rt.parsed = rt.date)

\* The reference date D of the staleness filter; D-2, D-1, D are Day(1..3).
RefDate == Day(3)

\* C10: out of a response with the buckets D-2, D-1, D a deployment that wants
\* only the latest bucket gets one sample per series, dated D, and a
\* deployment that wants every bucket gets three per series.
C10_StalenessFilter ==
    \A k \in 1..Len(lastPer) :
        LET m == lastDoc.val[k]
        IN  (m.Buckets = <<Day(1), Day(2), Day(3)>> /\ WellFormed(m) /\ pc # "crashed") =>
                IF filterMode = "latest-only"
                THEN /\ Len(SamplesOf(k)) = Len(m.Series)
                     /\ \A i \in 1..Len(SamplesOf(k)) : SamplesOf(k)[i].ts = RefDate
                ELSE Len(SamplesOf(k)) = 3 * Len(m.Series)

\* C11: every metric name a scrape passes to the descriptor lookup is one of
\* the ten names of AllSnapcraftMetricNames, so the lookup never panics with
\* "trying to export an unsupported metric" during a Collect.
C11_NoUnknownMetricInCollect ==
    /\ \A l \in lookups : l.name \in TenNames /\ ~l.panic
    /\ panicMsg # "unsupported metric"

=============================================================================
